---------------------------- MODULE Spec2Model ----------------------------
(***************************************************************************)
(* Register-level model of the ICN6211 DSI-to-RGB bridge driver            *)
(* (adafruit_icn6211.py).  The device is a bank of 8-bit registers behind  *)
(* an I2C bus; the driver declares fields over it with the                 *)
(* adafruit_register descriptors (UnaryStruct, RWBits, RWBit) and adds a   *)
(* few composite setters that split one logical value over registers.      *)
(***************************************************************************)
EXTENDS Integers, Sequences, FiniteSets, TLC

VARIABLES
    regs,      \* the chip's register bank: address -> byte
    _width,    \* ICN6211._width   (cached setter argument)
    _height,   \* ICN6211._height
    _hfp,      \* ICN6211._hfp
    _hsw,      \* ICN6211._hsw
    _hbp,      \* ICN6211._hbp
    call,      \* the most recent (or pending) driver call: op, arg, failAt, strict
    outcome,   \* "none" | "pending" | "ok" | "error" for that call
    bus,       \* bus transactions attempted by that call, in order
    before,    \* the register bank as it was when that call started
    ret,       \* the value that call returned (<<>> when it returns nothing)
    lastSet,   \* history: the argument of the latest call of each composite setter
    pc,        \* per caller: the composite call in progress (concurrent use)
    mutex      \* the application's lock around the handle: -1 when it uses none,
               \* 0 when free, else the caller holding it

vars == <<regs, _width, _height, _hfp, _hsw, _hbp, call, outcome, bus, before, ret, lastSet, pc, mutex>>

---------------------------------------------------------------------------
(* Call records                                                            *)

\* A caller that is not inside a composite call.
NoCall == [op |-> "idle", arg |-> <<>>, i |-> 0]

\* One call of the driver: the operation, its arguments, the bus transaction
\* that fails (0 for none) and whether packing checks the range.
Call(op, arg, failAt, strict) == [op |-> op, arg |-> arg, failAt |-> failAt, strict |-> strict]

---------------------------------------------------------------------------
(* Register addresses                                                      *)

_REG_CONFIG_FINISH == 9
_REG_SYS_CTRL_0 == 16
_REG_SYS_CTRL_1 == 17
_REG_EN_TEST_MODE == 20
_REG_HACTIVE_L == 32
_REG_VACTIVE_L == 33
_REG_VACTIVE_HACTIVE_H == 34
_REG_HFP_L == 35
_REG_HSW_L == 36
_REG_HBP_L == 37
_REG_HFP_HSW_HBP_H == 38
_REG_BIST_POL == 42
_REG_HFP_MIN == 54
_REG_PLL_CTRL_6 == 86
_REG_PLL_REF_DIV == 107
_REG_MIPI_ERR_VECTOR_L == 128
_REG_MIPI_ERR_VECTOR_H == 129
_REG_DSI_CTRL == 134

Regs ==
    { _REG_CONFIG_FINISH, _REG_SYS_CTRL_0, _REG_SYS_CTRL_1, _REG_EN_TEST_MODE,
      _REG_HACTIVE_L, _REG_VACTIVE_L, _REG_VACTIVE_HACTIVE_H,
      _REG_HFP_L, _REG_HSW_L, _REG_HBP_L, _REG_HFP_HSW_HBP_H,
      _REG_BIST_POL, _REG_HFP_MIN, _REG_PLL_CTRL_6, _REG_PLL_REF_DIV,
      _REG_MIPI_ERR_VECTOR_L, _REG_MIPI_ERR_VECTOR_H, _REG_DSI_CTRL }

ZeroBank == [a \in Regs |-> 0]

---------------------------------------------------------------------------
(* Python integer operators on non-negative integers                       *)

RECURSIVE BitAnd(_, _)
BitAnd(a, b) ==
    IF a = 0 \/ b = 0 THEN 0
    ELSE (a % 2) * (b % 2) + 2 * BitAnd(a \div 2, b \div 2)

RECURSIVE BitOr(_, _)
BitOr(a, b) ==
    IF a = 0 THEN b
    ELSE IF b = 0 THEN a
    ELSE (IF a % 2 = 1 \/ b % 2 = 1 THEN 1 ELSE 0) + 2 * BitOr(a \div 2, b \div 2)

Shl(a, n) == a * (2 ^ n)

Shr(a, n) == a \div (2 ^ n)

\* reg & ~mask for non-negative reg and mask
AndNot(reg, mask) == reg - BitAnd(reg, mask)

---------------------------------------------------------------------------
(* adafruit_register descriptors.  A field access is a record naming the   *)
(* descriptor, its register, its geometry and the value to write.          *)

Field(kind, addr, width, lowest, value) ==
    [kind |-> kind, addr |-> addr, width |-> width, lowest |-> lowest, value |-> value]

\* UnaryStruct(addr, ">B") / UnaryStruct(addr, ">H")
UnaryStruct(addr, nbytes, value) == Field("struct", addr, 8 * nbytes, 0, value)

\* RWBits(num_bits, addr, lowest_bit)
RWBits(num_bits, addr, lowest_bit, value) == Field("bits", addr, num_bits, lowest_bit, value)

\* RWBit(addr, bit)
RWBit(addr, bit, value) == Field("bit", addr, 1, bit, value)

\* RWBits.__init__: bit_mask = ((1 << num_bits) - 1) << lowest_bit
bit_mask(f) == Shl(2 ^ f.width - 1, f.lowest)

\* __get__ of the three descriptors on a register bank r:
\*   struct: big-endian unpack of the bytes at addr, addr+1, ...
\*   bits:   (reg & bit_mask) >> lowest_bit
\*   bit:    bool(reg & bit_mask)
Get(r, f) ==
    IF f.kind = "struct"
      THEN IF f.width = 16 THEN r[f.addr] * 256 + r[f.addr + 1] ELSE r[f.addr]
      ELSE Shr(BitAnd(r[f.addr], bit_mask(f)), f.lowest)

\* The byte RWBits.__set__ / RWBit.__set__ write back after reading old:
\*   bits: value <<= lowest_bit; reg &= ~bit_mask; reg |= value; buffer = reg & 0xFF
\*   bit:  reg |= bit_mask if value else reg &= ~bit_mask
\* RWBits does not check value against num_bits.
NewByte(old, f) ==
    IF f.kind = "bit"
      THEN IF f.value # 0 THEN BitOr(old, bit_mask(f)) ELSE AndNot(old, bit_mask(f))
      ELSE BitOr(AndNot(old, bit_mask(f)), Shl(f.value, f.lowest)) % 256

\* One attempted bus transaction in the log of a call.
Txn(rw, addr, ok) == <<rw, addr, IF ok THEN "ok" ELSE "fail">>

\* __set__ of a descriptor.  st = [regs, bus, outcome] is the running state of
\* the call; failAt is the index (from 1) of the bus transaction of this call
\* that the transport fails (0: none fails).  struct.pack_into runs before the
\* bus is touched: with strict (CPython) an out-of-range value raises there,
\* otherwise (MicroPython-style struct) it is truncated to the field's bytes.
Set(st, f, failAt, strict) ==
    LET n == Len(st.bus) IN
    IF f.kind = "struct" THEN
        IF f.value >= 2 ^ f.width /\ strict
          THEN [st EXCEPT !.outcome = "error"]
        ELSE IF failAt = n + 1
          THEN [st EXCEPT !.bus = Append(@, Txn("w", f.addr, FALSE)), !.outcome = "error"]
        ELSE LET v == f.value % (2 ^ f.width) IN
             [st EXCEPT
                !.regs = IF f.width = 16
                           THEN [@ EXCEPT ![f.addr] = v \div 256, ![f.addr + 1] = v % 256]
                           ELSE [@ EXCEPT ![f.addr] = v],
                !.bus = Append(@, Txn("w", f.addr, TRUE))]
    ELSE
        IF failAt = n + 1
          THEN [st EXCEPT !.bus = Append(@, Txn("r", f.addr, FALSE)), !.outcome = "error"]
        ELSE IF failAt = n + 2
          THEN [st EXCEPT !.bus = @ \o <<Txn("r", f.addr, TRUE), Txn("w", f.addr, FALSE)>>,
                          !.outcome = "error"]
        ELSE [st EXCEPT
                !.regs = [@ EXCEPT ![f.addr] = NewByte(st.regs[f.addr], f)],
                !.bus = @ \o <<Txn("r", f.addr, TRUE), Txn("w", f.addr, TRUE)>>]

\* The statements of a setter body, one descriptor assignment after another;
\* the first that raises ends the call.
RECURSIVE Run(_, _, _, _, _)
Run(st, prog, i, failAt, strict) ==
    IF i > Len(prog) THEN [st EXCEPT !.outcome = "ok"]
    ELSE LET st2 == Set(st, prog[i], failAt, strict) IN
         IF st2.outcome = "error" THEN st2
         ELSE Run(st2, prog, i + 1, failAt, strict)

Start(r) == [regs |-> r, outcome |-> "running", bus |-> <<>>]

\* Number of bus transactions a setter body issues when nothing fails.
RECURSIVE TxnCount(_)
TxnCount(prog) ==
    IF prog = <<>> THEN 0
    ELSE (IF Head(prog).kind = "struct" THEN 1 ELSE 2) + TxnCount(Tail(prog))

---------------------------------------------------------------------------
(* The fields of class ICN6211 that the model uses                         *)

reset(v) == RWBit(_REG_CONFIG_FINISH, 0, v)
config_finish(v) == RWBit(_REG_CONFIG_FINISH, 4, v)
out_bit_swap(v) == RWBits(3, _REG_SYS_CTRL_0, 4, v)
out_rgb_swap(v) == RWBits(3, _REG_SYS_CTRL_0, 0, v)
clk_phase_sel(v) == RWBits(2, _REG_SYS_CTRL_1, 4, v)
vactive_l(v) == UnaryStruct(_REG_VACTIVE_L, 1, v)
hactive_l(v) == UnaryStruct(_REG_HACTIVE_L, 1, v)
vactive_hactive_h(v) == UnaryStruct(_REG_VACTIVE_HACTIVE_H, 1, v)
hfp_l(v) == UnaryStruct(_REG_HFP_L, 1, v)
hsw_l(v) == UnaryStruct(_REG_HSW_L, 1, v)
hbp_l(v) == UnaryStruct(_REG_HBP_L, 1, v)
hfp_h(v) == RWBits(2, _REG_HFP_HSW_HBP_H, 4, v)
hsw_h(v) == RWBits(2, _REG_HFP_HSW_HBP_H, 2, v)
hbp_h(v) == RWBits(2, _REG_HFP_HSW_HBP_H, 0, v)
enable_test_mode(v) == UnaryStruct(_REG_EN_TEST_MODE, 1, v)
bist_mode(v) == RWBits(4, _REG_BIST_POL, 4, v)
bist_gen(v) == RWBit(_REG_BIST_POL, 3, v)
hs_pol(v) == RWBit(_REG_BIST_POL, 2, v)
vs_pol(v) == RWBit(_REG_BIST_POL, 1, v)
de_pol(v) == RWBit(_REG_BIST_POL, 0, v)
hfp_min(v) == UnaryStruct(_REG_HFP_MIN, 1, v)
pll_lpf_c(v) == RWBits(3, _REG_PLL_CTRL_6, 5, v)
pll_lpf_r(v) == RWBits(3, _REG_PLL_CTRL_6, 2, v)
pll_refsel(v) == RWBits(2, _REG_PLL_CTRL_6, 0, v)
pll_out_divide_ratio(v) == RWBits(2, _REG_PLL_REF_DIV, 5, v)
pll_ref_clk_divide_ratio(v) == RWBits(4, _REG_PLL_REF_DIV, 0, v)
pll_ref_clk_extra_divide(v) == RWBit(_REG_PLL_REF_DIV, 4, v)
mipi_err_vector(v) == UnaryStruct(_REG_MIPI_ERR_VECTOR_L, 2, v)
sot_err(v) == RWBit(_REG_MIPI_ERR_VECTOR_L, 0, v)
sot_sync_err(v) == RWBit(_REG_MIPI_ERR_VECTOR_L, 1, v)
eot_sync_err(v) == RWBit(_REG_MIPI_ERR_VECTOR_L, 2, v)
emec_err(v) == RWBit(_REG_MIPI_ERR_VECTOR_L, 3, v)
lpt_sync_err(v) == RWBit(_REG_MIPI_ERR_VECTOR_L, 4, v)
peripheral_err(v) == RWBit(_REG_MIPI_ERR_VECTOR_L, 5, v)
false_ctrl_err(v) == RWBit(_REG_MIPI_ERR_VECTOR_L, 6, v)
contention_err(v) == RWBit(_REG_MIPI_ERR_VECTOR_L, 7, v)
ecc_single_err(v) == RWBit(_REG_MIPI_ERR_VECTOR_H, 0, v)
ecc_multi_err(v) == RWBit(_REG_MIPI_ERR_VECTOR_H, 1, v)
crc_err(v) == RWBit(_REG_MIPI_ERR_VECTOR_H, 2, v)
ddtnr_err(v) == RWBit(_REG_MIPI_ERR_VECTOR_H, 3, v)
dsi_vc_err(v) == RWBit(_REG_MIPI_ERR_VECTOR_H, 4, v)
tran_len_err(v) == RWBit(_REG_MIPI_ERR_VECTOR_H, 5, v)
prot_vio_err(v) == RWBit(_REG_MIPI_ERR_VECTOR_H, 7, v)
mipi_lane_num(v) == RWBits(2, _REG_DSI_CTRL, 0, v)

---------------------------------------------------------------------------
(* Enumerated constants                                                    *)

BIST_MODE == [DISABLE |-> 0, MONO |-> 1, MONO_W_COLOR_BORDER |-> 2, CHESSBOARD |-> 3,
              COLORBAR |-> 4, COLOR_SWITCH |-> 5]

OUT_RGB_SWAP == [RGB |-> 0, RBG |-> 1, GRB |-> 2, GBR |-> 3, BRG |-> 4, BGR |-> 5]

OUT_BIT_SWAP == [MODE_666_5_0_to_5_0 |-> 0, MODE_666_5_0_to_0_5 |-> 1,
                 MODE_666_7_2_to_5_0 |-> 2, MODE_666_7_2_to_0_5 |-> 3,
                 MODE_888_7_0_to_7_0 |-> 4, MODE_888_7_0_to_0_7 |-> 5]

MIPI_LANE_NUM == [ONE_LANE |-> 0, TWO_LANE |-> 1, THREE_LANE |-> 2, FOUR_LANE |-> 3]

PLL_REF_SEL == [REF_CLK |-> 0, MIPI_CLK |-> 2, OSC_CLK |-> 4]

PLL_OUT_DIV_RATIO == [DIV_1 |-> 0, DIV_2 |-> 1, DIV_4 |-> 2, DIV_8 |-> 3]

PLL_REF_CLK_DIV_RATIO ==
    [DIV_16 |-> 0, DIV_1 |-> 1, DIV_2 |-> 2, DIV_3 |-> 3, DIV_4 |-> 4, DIV_5 |-> 5,
     DIV_6 |-> 6, DIV_7 |-> 7, DIV_8 |-> 8, DIV_9 |-> 9, DIV_10 |-> 10, DIV_11 |-> 11,
     DIV_12 |-> 12, DIV_13 |-> 13, DIV_14 |-> 14, DIV_15 |-> 15]

CLK_PHASE == [PHASE_0 |-> 0, PHASE_1_4 |-> 1, PHASE_1_2 |-> 2, PHASE_3_4 |-> 3]

---------------------------------------------------------------------------
(* Composite setters: the descriptor assignments each body makes, in order *)

\* resolution.setter with the two high nibbles exchanged
resolution_body_high_swapped(w, h) ==
    << hactive_l(BitAnd(w, 255)),
       vactive_l(BitAnd(h, 255)),
       vactive_hactive_h(BitOr(Shr(h, 8), Shl(Shr(w, 8), 4))) >>

\* resolution.setter writing the height's low byte before the width's
resolution_body_height_first(w, h) ==
    << vactive_l(BitAnd(h, 255)),
       hactive_l(BitAnd(w, 255)),
       vactive_hactive_h(BitOr(Shr(w, 8), Shl(Shr(h, 8), 4))) >>

\* resolution.setter after _width/_height are stored; w, h are self._width,
\* self._height as the statements read them
resolution_body(w, h) ==
    << hactive_l(BitAnd(w, 255)),
       vactive_l(BitAnd(h, 255)),
       vactive_hactive_h(BitOr(Shr(w, 8), Shl(Shr(h, 8), 4))) >>

\* the condition without the 0x80 exception
hfp_min_test_no_exception(value) == value <= 255

\* Python parses  value <= 255 & value != 0x80  as the chained comparison
\* value <= (255 & value) != 0x80
hfp_min_test(value) ==
    LET m == BitAnd(255, value) IN value <= m /\ m # 128

\* horizontal_front_porch.setter after _hfp is stored
horizontal_front_porch_body(value) ==
    << hfp_l(BitAnd(value, 255)),
       hfp_h(Shl(Shr(value, 8), 4)),
       IF hfp_min_test(value) THEN hfp_min(value) ELSE hfp_min(255) >>

\* horizontal_sync_width.setter after _hsw is stored
horizontal_sync_width_body(value) ==
    << hsw_l(BitAnd(value, 255)),
       hsw_h(Shl(Shr(value, 8), 2)) >>

\* horizontal_back_porch.setter after _hbp is stored
horizontal_back_porch_body(value) ==
    << hbp_l(BitAnd(value, 255)),
       hbp_h(Shr(value, 8)) >>

\* test_mode.setter that leaves the pattern field alone when disabling
test_mode_body_keep_pattern(mode) ==
    IF mode = BIST_MODE.DISABLE
      THEN << enable_test_mode(0), bist_gen(0) >>
      ELSE << bist_mode(mode), enable_test_mode(67), bist_gen(1) >>

\* test_mode.setter
test_mode_body(mode) ==
    << bist_mode(mode) >> \o
    ( IF mode = BIST_MODE.DISABLE
        THEN << enable_test_mode(0), bist_gen(0) >>
        ELSE << enable_test_mode(67), bist_gen(1) >> )

---------------------------------------------------------------------------
(* Calls                                                                   *)

Callers == {1, 2}

Idle == [c \in Callers |-> NoCall]

NeverSet == [resolution |-> <<0, 0>>, hfp |-> 0, hsw |-> 0, hbp |-> 0]

\* The effect of a whole setter call on the bank and the call record.
Finish(c, prog) ==
    LET st == Run(Start(regs), prog, 1, c.failAt, c.strict) IN
    /\ regs' = st.regs
    /\ bus' = st.bus
    /\ outcome' = st.outcome
    /\ before' = regs
    /\ call' = c
    /\ ret' = <<>>
    /\ UNCHANGED <<pc, mutex>>

\* icn.resolution = res, storing _width/_height only once the writes are through
resolution_set_cache_last(c) ==
    /\ c.op = "resolution"
    /\ lastSet' = [lastSet EXCEPT !.resolution = c.arg]
    /\ Finish(c, resolution_body(c.arg[1], c.arg[2]))
    /\ _width' = IF outcome' = "ok" THEN c.arg[1] ELSE _width
    /\ _height' = IF outcome' = "ok" THEN c.arg[2] ELSE _height
    /\ UNCHANGED <<_hfp, _hsw, _hbp>>

\* icn.resolution = res
resolution_set(c) ==
    /\ c.op = "resolution"
    /\ _width' = c.arg[1]
    /\ _height' = c.arg[2]
    /\ lastSet' = [lastSet EXCEPT !.resolution = c.arg]
    /\ Finish(c, resolution_body(c.arg[1], c.arg[2]))
    /\ UNCHANGED <<_hfp, _hsw, _hbp>>

\* icn.horizontal_front_porch = value
horizontal_front_porch_set(c) ==
    /\ c.op = "horizontal_front_porch"
    /\ _hfp' = c.arg[1]
    /\ lastSet' = [lastSet EXCEPT !.hfp = c.arg[1]]
    /\ Finish(c, horizontal_front_porch_body(c.arg[1]))
    /\ UNCHANGED <<_width, _height, _hsw, _hbp>>

\* icn.horizontal_sync_width = value
horizontal_sync_width_set(c) ==
    /\ c.op = "horizontal_sync_width"
    /\ _hsw' = c.arg[1]
    /\ lastSet' = [lastSet EXCEPT !.hsw = c.arg[1]]
    /\ Finish(c, horizontal_sync_width_body(c.arg[1]))
    /\ UNCHANGED <<_width, _height, _hfp, _hbp>>

\* icn.horizontal_back_porch = value
horizontal_back_porch_set(c) ==
    /\ c.op = "horizontal_back_porch"
    /\ _hbp' = c.arg[1]
    /\ lastSet' = [lastSet EXCEPT !.hbp = c.arg[1]]
    /\ Finish(c, horizontal_back_porch_body(c.arg[1]))
    /\ UNCHANGED <<_width, _height, _hfp, _hsw>>

\* icn.test_mode = mode
test_mode_set(c) ==
    /\ c.op = "test_mode"
    /\ Finish(c, test_mode_body(c.arg[1]))
    /\ UNCHANGED <<_width, _height, _hfp, _hsw, _hbp, lastSet>>

\* icn.<field> = value for a declared field, c.arg = <<field name, value>>
FieldOf(name, v) ==
    CASE name = "hactive_l" -> hactive_l(v)
      [] name = "vactive_l" -> vactive_l(v)
      [] name = "vactive_hactive_h" -> vactive_hactive_h(v)
      [] name = "hfp_l" -> hfp_l(v)
      [] name = "hsw_l" -> hsw_l(v)
      [] name = "hbp_l" -> hbp_l(v)
      [] name = "hfp_h" -> hfp_h(v)
      [] name = "hsw_h" -> hsw_h(v)
      [] name = "hbp_h" -> hbp_h(v)
      [] name = "hfp_min" -> hfp_min(v)
      [] name = "enable_test_mode" -> enable_test_mode(v)
      [] name = "bist_mode" -> bist_mode(v)
      [] name = "bist_gen" -> bist_gen(v)
      [] name = "hs_pol" -> hs_pol(v)
      [] name = "vs_pol" -> vs_pol(v)
      [] name = "de_pol" -> de_pol(v)
      [] name = "out_bit_swap" -> out_bit_swap(v)
      [] name = "out_rgb_swap" -> out_rgb_swap(v)
      [] name = "clk_phase_sel" -> clk_phase_sel(v)
      [] name = "pll_lpf_c" -> pll_lpf_c(v)
      [] name = "pll_lpf_r" -> pll_lpf_r(v)
      [] name = "pll_refsel" -> pll_refsel(v)
      [] name = "pll_out_divide_ratio" -> pll_out_divide_ratio(v)
      [] name = "pll_ref_clk_divide_ratio" -> pll_ref_clk_divide_ratio(v)
      [] name = "pll_ref_clk_extra_divide" -> pll_ref_clk_extra_divide(v)
      [] name = "mipi_lane_num" -> mipi_lane_num(v)
      [] name = "mipi_err_vector" -> mipi_err_vector(v)
      [] name = "sot_err" -> sot_err(v)
      [] name = "sot_sync_err" -> sot_sync_err(v)
      [] name = "eot_sync_err" -> eot_sync_err(v)
      [] name = "emec_err" -> emec_err(v)
      [] name = "lpt_sync_err" -> lpt_sync_err(v)
      [] name = "peripheral_err" -> peripheral_err(v)
      [] name = "false_ctrl_err" -> false_ctrl_err(v)
      [] name = "contention_err" -> contention_err(v)
      [] name = "ecc_single_err" -> ecc_single_err(v)
      [] name = "ecc_multi_err" -> ecc_multi_err(v)
      [] name = "crc_err" -> crc_err(v)
      [] name = "ddtnr_err" -> ddtnr_err(v)
      [] name = "dsi_vc_err" -> dsi_vc_err(v)
      [] name = "tran_len_err" -> tran_len_err(v)
      [] name = "prot_vio_err" -> prot_vio_err(v)

field_set(c) ==
    /\ c.op = "field_set"
    /\ Finish(c, << FieldOf(c.arg[1], c.arg[2]) >>)
    /\ UNCHANGED <<_width, _height, _hfp, _hsw, _hbp, lastSet>>

\* A call that leaves the bank alone and returns value after the bus
\* transactions txns (none fails).
Return(c, txns, value) ==
    /\ regs' = regs
    /\ bus' = txns
    /\ outcome' = "ok"
    /\ before' = regs
    /\ call' = c
    /\ ret' = value
    /\ UNCHANGED <<pc, mutex>>
    /\ UNCHANGED <<_width, _height, _hfp, _hsw, _hbp, lastSet>>

\* A read whose only bus transaction fails: the exception reaches the caller.
ReadFails(c, addr) ==
    /\ regs' = regs
    /\ bus' = << Txn("r", addr, FALSE) >>
    /\ outcome' = "error"
    /\ before' = regs
    /\ call' = c
    /\ ret' = <<>>
    /\ UNCHANGED <<pc, mutex>>
    /\ UNCHANGED <<_width, _height, _hfp, _hsw, _hbp, lastSet>>

\* icn.<field> read for a declared field, c.arg = <<field name>>
field_get(c) ==
    /\ c.op = "field_get"
    /\ LET f == FieldOf(c.arg[1], 0) IN
       IF c.failAt = 1
         THEN ReadFails(c, f.addr)
         ELSE Return(c, << Txn("r", f.addr, TRUE) >>, << Get(regs, f) >>)

\* icn.resolution
resolution_get(c) ==
    /\ c.op = "resolution_get"
    /\ Return(c, <<>>, << _width, _height >>)

\* icn.horizontal_front_porch
horizontal_front_porch_get(c) ==
    /\ c.op = "horizontal_front_porch_get"
    /\ Return(c, <<>>, << _hfp >>)

\* icn.horizontal_sync_width
horizontal_sync_width_get(c) ==
    /\ c.op = "horizontal_sync_width_get"
    /\ Return(c, <<>>, << _hsw >>)

\* icn.horizontal_back_porch
horizontal_back_porch_get(c) ==
    /\ c.op = "horizontal_back_porch_get"
    /\ Return(c, <<>>, << _hbp >>)

\* icn.test_mode
test_mode_get(c) ==
    /\ c.op = "test_mode_get"
    /\ IF c.failAt = 1
         THEN ReadFails(c, _REG_BIST_POL)
         ELSE Return(c, << Txn("r", _REG_BIST_POL, TRUE) >>, << Get(regs, bist_mode(0)) >>)

\* icn.soft_reset()
soft_reset(c) ==
    /\ c.op = "soft_reset"
    /\ Finish(c, << reset(1) >>)
    /\ UNCHANGED <<_width, _height, _hfp, _hsw, _hbp, lastSet>>

\* icn.reset_errors()
reset_errors(c) ==
    /\ c.op = "reset_errors"
    /\ Finish(c, << mipi_err_vector(0) >>)
    /\ UNCHANGED <<_width, _height, _hfp, _hsw, _hbp, lastSet>>

---------------------------------------------------------------------------
(* Resolution: one call on a bank that holds earlier contents              *)

LowBytes == {0, 32, 224, 255}

ResValues == { hi * 256 + lo : hi \in 0..15, lo \in LowBytes }

\* a bank whose registers were all written with 0xA5 before
StaleBank == [a \in Regs |-> 165]

InitCommon ==
    /\ _width = 0 /\ _height = 0 /\ _hfp = 0 /\ _hsw = 0 /\ _hbp = 0
    /\ bus = <<>>
    /\ ret = <<>>
    /\ lastSet = NeverSet
    /\ pc = Idle
    /\ mutex = -1

\* every width against a few heights, and every height against a few widths
ResAxes ==
    { <<w, h>> : w \in 0..4095, h \in {0, 480, 4095} }
    \cup { <<w, h>> : w \in {0, 800, 4095}, h \in 0..4095 }

InitResolution ==
    /\ InitCommon
    /\ regs \in {ZeroBank, StaleBank}
    /\ before = regs
    /\ outcome = "pending"
    /\ call \in { Call("resolution", <<w, h>>, k, TRUE) :
                    w \in ResValues, h \in ResValues, k \in 0..3 }
                \cup { Call("resolution", res, 0, TRUE) : res \in ResAxes }

ApplyResolution == outcome = "pending" /\ resolution_set(call)

NextResolution == ApplyResolution

SpecResolution == InitResolution /\ [][NextResolution]_vars

\* C1: for every width and height in 0..4095, a resolution assignment that
\* completes leaves 0x20 = width & 0xFF, 0x21 = height & 0xFF and
\* 0x22 = (width >> 8) | ((height >> 8) << 4); (800, 480) gives 0x20, 0xE0, 0x13.
C1_ResolutionPacking ==
    (call.op = "resolution" /\ outcome = "ok"
        /\ call.arg[1] \in 0..4095 /\ call.arg[2] \in 0..4095) =>
      LET w == call.arg[1]
          h == call.arg[2]
      IN /\ regs[_REG_HACTIVE_L] = w % 256
         /\ regs[_REG_VACTIVE_L] = h % 256
         /\ regs[_REG_VACTIVE_HACTIVE_H] = (w \div 256) + 16 * (h \div 256)
         /\ (w = 800 /\ h = 480) =>
               /\ regs[_REG_HACTIVE_L] = 32
               /\ regs[_REG_VACTIVE_L] = 224
               /\ regs[_REG_VACTIVE_HACTIVE_H] = 19

C1_Witness ==
    /\ call.op = "resolution" /\ outcome = "ok"
    /\ call.arg = <<800, 480>>
    /\ before = StaleBank
    /\ regs[_REG_HACTIVE_L] = 32
    /\ regs[_REG_VACTIVE_L] = 224
    /\ regs[_REG_VACTIVE_HACTIVE_H] = 19

ResolutionRegs == << _REG_HACTIVE_L, _REG_VACTIVE_L, _REG_VACTIVE_HACTIVE_H >>

\* C8: the resolution setter writes 0x20, 0x21, 0x22 in that order, one write
\* each; when the k-th write fails the call ends in the error with exactly k
\* transactions attempted (no retry), the k-1 earlier registers keep their new
\* bytes and the later ones keep what they held before the call.
C8_ResolutionOrderNoRollback ==
    (call.op = "resolution" /\ outcome # "pending") =>
      LET w == call.arg[1]
          h == call.arg[2]
          k == call.failAt
          n == IF k = 0 THEN 3 ELSE k
          new == << w % 256, h % 256, (w \div 256) + 16 * (h \div 256) >>
      IN /\ outcome = (IF k = 0 THEN "ok" ELSE "error")
         /\ Len(bus) = n
         /\ \A j \in 1..n :
              bus[j] = << "w", ResolutionRegs[j], IF j = k THEN "fail" ELSE "ok" >>
         /\ \A j \in 1..3 :
              regs[ResolutionRegs[j]] =
                 IF k = 0 \/ j < k THEN new[j] ELSE before[ResolutionRegs[j]]
         /\ \A a \in Regs \ {_REG_HACTIVE_L, _REG_VACTIVE_L, _REG_VACTIVE_HACTIVE_H} :
              regs[a] = before[a]

C8_Witness ==
    /\ call.op = "resolution" /\ outcome = "error"
    /\ call.arg = <<800, 480>> /\ call.failAt = 2
    /\ before = StaleBank
    /\ regs[_REG_HACTIVE_L] = 32
    /\ regs[_REG_VACTIVE_L] = 165
    /\ regs[_REG_VACTIVE_HACTIVE_H] = 165
    /\ bus = << <<"w", _REG_HACTIVE_L, "ok">>, <<"w", _REG_VACTIVE_L, "fail">> >>

---------------------------------------------------------------------------
(* Front porch: one call for every 10-bit value                            *)

InitFrontPorch ==
    /\ InitCommon
    /\ regs \in {ZeroBank, StaleBank}
    /\ before = regs
    /\ outcome = "pending"
    /\ call \in { Call("horizontal_front_porch", <<v>>, k, TRUE) :
                    v \in 0..1023, k \in 0..4 }

ApplyFrontPorch == outcome = "pending" /\ horizontal_front_porch_set(call)

NextFrontPorch == ApplyFrontPorch

SpecFrontPorch == InitFrontPorch /\ [][NextFrontPorch]_vars

\* C3: for every v in 0..1023, after horizontal_front_porch = v completes,
\* register 0x36 (hfp_min) is v when v <= 255 and v # 0x80, and 0xFF otherwise.
C3_FrontPorchMinimum ==
    (call.op = "horizontal_front_porch" /\ outcome = "ok" /\ call.arg[1] \in 0..1023) =>
      LET v == call.arg[1] IN
      /\ regs[_REG_HFP_MIN] = IF v <= 255 /\ v # 128 THEN v ELSE 255
      /\ v = 40 => regs[_REG_HFP_MIN] = 40
      /\ v = 128 => regs[_REG_HFP_MIN] = 255
      /\ v = 256 => regs[_REG_HFP_MIN] = 255

C3_Witness ==
    /\ call.op = "horizontal_front_porch" /\ outcome = "ok"
    /\ call.arg = <<128>>
    /\ before = ZeroBank
    /\ regs[_REG_HFP_L] = 128
    /\ regs[_REG_HFP_MIN] = 255

---------------------------------------------------------------------------
(* Horizontal timing: any sequence of the three setters on a zeroed bank   *)

PorchValues == {0, 40, 128, 256, 300, 1023}

InitPorch ==
    /\ InitCommon
    /\ regs = ZeroBank
    /\ before = regs
    /\ outcome = "none"
    /\ call = Call("none", <<>>, 0, TRUE)

NextPorch ==
    \E v \in PorchValues :
        \/ horizontal_front_porch_set(Call("horizontal_front_porch", <<v>>, 0, TRUE))
        \/ horizontal_sync_width_set(Call("horizontal_sync_width", <<v>>, 0, TRUE))
        \/ horizontal_back_porch_set(Call("horizontal_back_porch", <<v>>, 0, TRUE))

SpecPorch == InitPorch /\ [][NextPorch]_vars

\* The 2-bit slots of register 0x26
Slot_hfp(r) == (r[_REG_HFP_HSW_HBP_H] \div 16) % 4
Slot_hsw(r) == (r[_REG_HFP_HSW_HBP_H] \div 4) % 4
Slot_hbp(r) == r[_REG_HFP_HSW_HBP_H] % 4

\* C2: after any sequence of front porch / sync width / back porch
\* assignments (values 0..1023) on a zeroed bank, 0x23, 0x24, 0x25 hold the low
\* bytes of the latest values and 0x26 holds their high 2 bits in bits 5:4,
\* 3:2 and 1:0; an assignment leaves the slots of the other two alone.
C2_PorchSlots ==
    /\ regs[_REG_HFP_L] = lastSet.hfp % 256
    /\ regs[_REG_HSW_L] = lastSet.hsw % 256
    /\ regs[_REG_HBP_L] = lastSet.hbp % 256
    /\ Slot_hfp(regs) = lastSet.hfp \div 256
    /\ Slot_hsw(regs) = lastSet.hsw \div 256
    /\ Slot_hbp(regs) = lastSet.hbp \div 256
    /\ regs[_REG_HFP_HSW_HBP_H] < 64
    /\ call.op # "horizontal_front_porch" =>
          Slot_hfp(regs) = Slot_hfp(before)
    /\ call.op # "horizontal_sync_width" =>
          Slot_hsw(regs) = Slot_hsw(before)
    /\ call.op # "horizontal_back_porch" =>
          Slot_hbp(regs) = Slot_hbp(before)

---------------------------------------------------------------------------
(* The driver in use: composite setters that may fail on the transport,    *)
(* direct writes to the registers under them, soft_reset and the getters   *)

Resolutions == { <<800, 480>> }

Porches == {300}

DirectWrites == { <<"hactive_l", 7>>, <<"hsw_h", 3>> }

Init ==
    /\ InitCommon
    /\ regs = ZeroBank
    /\ before = regs
    /\ outcome = "none"
    /\ call = Call("none", <<>>, 0, TRUE)

Next ==
    \/ \E res \in Resolutions, k \in 0..3 :
          resolution_set(Call("resolution", res, k, TRUE))
    \/ \E v \in Porches, k \in 0..4 :
          horizontal_front_porch_set(Call("horizontal_front_porch", <<v>>, k, TRUE))
    \/ \E v \in Porches, k \in 0..3 :
          horizontal_sync_width_set(Call("horizontal_sync_width", <<v>>, k, TRUE))
    \/ \E v \in Porches, k \in 0..3 :
          horizontal_back_porch_set(Call("horizontal_back_porch", <<v>>, k, TRUE))
    \/ \E d \in DirectWrites : field_set(Call("field_set", d, 0, TRUE))
    \/ \E k \in 0..2 : soft_reset(Call("soft_reset", <<>>, k, TRUE))
    \/ \E k \in 0..1 : resolution_get(Call("resolution_get", <<>>, k, TRUE))
    \/ \E k \in 0..1 : horizontal_front_porch_get(Call("horizontal_front_porch_get", <<>>, k, TRUE))
    \/ \E k \in 0..1 : horizontal_sync_width_get(Call("horizontal_sync_width_get", <<>>, k, TRUE))
    \/ \E k \in 0..1 : horizontal_back_porch_get(Call("horizontal_back_porch_get", <<>>, k, TRUE))

Spec == Init /\ [][Next]_vars

\* C7: after any sequence of composite setter calls (completed or failed on the
\* transport), direct register writes and soft_reset, the cached values are the
\* arguments of the latest call of each setter (0 if never called), and the
\* four getters return exactly those, attempt no bus transaction and leave the
\* bank alone, whatever the registers hold.
C7_GettersReturnLastArgument ==
    /\ << _width, _height >> = lastSet.resolution
    /\ _hfp = lastSet.hfp
    /\ _hsw = lastSet.hsw
    /\ _hbp = lastSet.hbp
    /\ call.op = "resolution_get" =>
          ret = lastSet.resolution /\ bus = <<>> /\ outcome = "ok" /\ regs = before
    /\ call.op = "horizontal_front_porch_get" =>
          ret = << lastSet.hfp >> /\ bus = <<>> /\ outcome = "ok" /\ regs = before
    /\ call.op = "horizontal_sync_width_get" =>
          ret = << lastSet.hsw >> /\ bus = <<>> /\ outcome = "ok" /\ regs = before
    /\ call.op = "horizontal_back_porch_get" =>
          ret = << lastSet.hbp >> /\ bus = <<>> /\ outcome = "ok" /\ regs = before

\* the getter answers (800, 480) although the first write of that assignment
\* failed and the registers hold something else
C7_Witness ==
    /\ call.op = "resolution_get"
    /\ ret = <<800, 480>>
    /\ regs[_REG_HACTIVE_L] = 7
    /\ regs[_REG_VACTIVE_L] = 0
    /\ regs[_REG_CONFIG_FINISH] = 1

---------------------------------------------------------------------------
(* Test pattern generator: test_mode assignments and polarity bit writes   *)

Modes == { BIST_MODE[n] : n \in DOMAIN BIST_MODE }

PolarityWrites == { <<f, b>> : f \in {"hs_pol", "vs_pol", "de_pol"}, b \in {0, 1} }

InitTestMode ==
    /\ InitCommon
    /\ regs = ZeroBank
    /\ before = regs
    /\ outcome = "none"
    /\ call = Call("none", <<>>, 0, TRUE)

NextTestMode ==
    \/ \E m \in Modes, k \in 0..5 : test_mode_set(Call("test_mode", <<m>>, k, TRUE))
    \/ \E k \in 0..1 : test_mode_get(Call("test_mode_get", <<>>, k, TRUE))
    \/ \E d \in PolarityWrites : field_set(Call("field_set", d, 0, TRUE))

SpecTestMode == InitTestMode /\ [][NextTestMode]_vars

\* the bank as a completed test_mode = m (m not DISABLE) leaves it
TestModeActive(r) ==
    /\ r[_REG_BIST_POL] \div 16 \in Modes \ {BIST_MODE.DISABLE}
    /\ (r[_REG_BIST_POL] \div 8) % 2 = 1
    /\ r[_REG_EN_TEST_MODE] = 67

DisabledAfterActive ==
    /\ call.op = "test_mode" /\ call.arg = << BIST_MODE.DISABLE >> /\ outcome = "ok"
    /\ TestModeActive(before)

\* C4 as stated: test_mode = DISABLE after a non-disable mode m clears bist_gen
\* (bit 3 of 0x2A), sets 0x14 to 0x00, and bits 7:4 of 0x2A still hold m.
C4_DisableKeepsPattern ==
    DisabledAfterActive =>
      /\ (regs[_REG_BIST_POL] \div 8) % 2 = 0
      /\ regs[_REG_EN_TEST_MODE] = 0
      /\ regs[_REG_BIST_POL] \div 16 = before[_REG_BIST_POL] \div 16

\* C4 amended: test_mode = DISABLE after a non-disable mode m clears bist_gen,
\* sets 0x14 to 0x00, and bits 7:4 of 0x2A hold DISABLE (0) afterwards: the
\* setter writes the mode it is given into the pattern field first.
C4_DisableClearsPattern ==
    DisabledAfterActive =>
      /\ (regs[_REG_BIST_POL] \div 8) % 2 = 0
      /\ regs[_REG_EN_TEST_MODE] = 0
      /\ regs[_REG_BIST_POL] \div 16 = BIST_MODE.DISABLE

C4_Witness ==
    /\ DisabledAfterActive
    /\ before[_REG_BIST_POL] \div 16 = BIST_MODE.COLORBAR
    /\ before[_REG_BIST_POL] % 8 = 5
    /\ regs[_REG_BIST_POL] = 5
    /\ regs[_REG_EN_TEST_MODE] = 0

---------------------------------------------------------------------------
(* Error vector: fault bits written one by one, the aggregate read, and    *)
(* reset_errors                                                            *)

\* the fault bits exercised: both ends of each register and bit 9
FaultBits == {"sot_err", "contention_err", "ecc_single_err", "ecc_multi_err", "prot_vio_err"}

InitErrors ==
    /\ InitCommon
    /\ regs = ZeroBank
    /\ before = regs
    /\ outcome = "none"
    /\ call = Call("none", <<>>, 0, TRUE)

NextErrors ==
    \/ \E f \in FaultBits, b \in {0, 1}, k \in 0..2 :
          field_set(Call("field_set", <<f, b>>, k, TRUE))
    \/ \E k \in 0..1 : field_get(Call("field_get", <<"mipi_err_vector">>, k, TRUE))
    \/ \E k \in 0..1 : reset_errors(Call("reset_errors", <<>>, k, TRUE))

SpecErrors == InitErrors /\ [][NextErrors]_vars

\* C5: the aggregate mipi_err_vector reads as the 16-bit value with the low
\* error register 0x80 in bits 7:0 and the high error register 0x81 in bits
\* 15:8; with only sot_err and ecc_multi_err set it reads 0x0201.
C5_ErrorVectorLayout ==
    (call.op = "field_get" /\ call.arg = <<"mipi_err_vector">> /\ outcome = "ok") =>
      /\ ret = << regs[_REG_MIPI_ERR_VECTOR_L] + 256 * regs[_REG_MIPI_ERR_VECTOR_H] >>
      /\ (regs[_REG_MIPI_ERR_VECTOR_L] = 1 /\ regs[_REG_MIPI_ERR_VECTOR_H] = 2) =>
            ret = << 513 >>

---------------------------------------------------------------------------
(* Enumerated constants written to the fields they configure               *)

Values(enum) == { enum[n] : n \in DOMAIN enum }

EnumFields ==
    { <<"bist_mode", BIST_MODE>>, <<"out_rgb_swap", OUT_RGB_SWAP>>,
      <<"out_bit_swap", OUT_BIT_SWAP>>, <<"mipi_lane_num", MIPI_LANE_NUM>>,
      <<"pll_refsel", PLL_REF_SEL>>, <<"pll_out_divide_ratio", PLL_OUT_DIV_RATIO>>,
      <<"pll_ref_clk_divide_ratio", PLL_REF_CLK_DIV_RATIO>>,
      <<"clk_phase_sel", CLK_PHASE>> }

EnumWrites == UNION { { <<e[1], c>> : c \in Values(e[2]) } : e \in EnumFields }

InitEnum ==
    /\ InitCommon
    /\ outcome = "pending"
    /\ call \in { Call("field_set", d, 0, TRUE) : d \in EnumWrites }
    /\ \E b \in 0..255 : regs = [ZeroBank EXCEPT ![FieldOf(call.arg[1], 0).addr] = b]
    /\ before = regs

ApplyEnum == outcome = "pending" /\ field_set(call)

ReadBackEnum ==
    /\ outcome = "ok" /\ call.op = "field_set"
    /\ field_get(Call("field_get", << call.arg[1] >>, 0, TRUE))

NextEnum == ApplyEnum \/ ReadBackEnum

SpecEnum == InitEnum /\ [][NextEnum]_vars

\* the bits of byte b outside the field f
Outside(b, f) ==
    (b \div (2 ^ (f.lowest + f.width))) * (2 ^ f.lowest) + (b % (2 ^ f.lowest))

\* C10: every enumerated constant fits its field: after writing constant c to
\* the field, the field reads back c and the other bits of the register are
\* as they were.
C10_EnumRoundTrip ==
    (call.op = "field_set" /\ outcome = "ok") =>
      LET f == FieldOf(call.arg[1], call.arg[2]) IN
      /\ (regs[f.addr] \div (2 ^ f.lowest)) % (2 ^ f.width) = call.arg[2]
      /\ Outside(regs[f.addr], f) = Outside(before[f.addr], f)

---------------------------------------------------------------------------
(* Range: one write at or past the width of its target                     *)

Margin == 2

Around(limit) == (limit - Margin) .. (limit + Margin)

RangeFields == {"hbp_h", "bist_mode", "pll_refsel", "hfp_l"}

RangeCalls ==
    { Call(op, <<v>>, 0, s) :
        op \in {"horizontal_front_porch", "horizontal_sync_width", "horizontal_back_porch"},
        v \in Around(1024), s \in BOOLEAN }
    \cup { Call("resolution", <<w, h>>, 0, s) :
        w \in Around(4096), h \in {480} \cup Around(4096), s \in BOOLEAN }
    \cup UNION { { Call("field_set", <<f, v>>, 0, s) :
                     v \in Around(2 ^ FieldOf(f, 0).width), s \in BOOLEAN } :
                 f \in RangeFields }

InitRange ==
    /\ InitCommon
    /\ regs \in {ZeroBank, StaleBank}
    /\ before = regs
    /\ outcome = "pending"
    /\ call \in RangeCalls

ApplyRange ==
    /\ outcome = "pending"
    /\ \/ resolution_set(call)
       \/ horizontal_front_porch_set(call)
       \/ horizontal_sync_width_set(call)
       \/ horizontal_back_porch_set(call)
       \/ field_set(call)

NextRange == ApplyRange

SpecRange == InitRange /\ [][NextRange]_vars

OutOfRange(c) ==
    \/ /\ c.op \in {"horizontal_front_porch", "horizontal_sync_width", "horizontal_back_porch"}
       /\ c.arg[1] >= 1024
    \/ /\ c.op = "resolution"
       /\ (c.arg[1] >= 4096 \/ c.arg[2] >= 4096)
    \/ /\ c.op = "field_set"
       /\ c.arg[2] >= 2 ^ FieldOf(c.arg[1], 0).width

\* C6: a write whose value exceeds its declared width (a field write with
\* v >= 2^w, a porch or sync value >= 1024, a resolution width or height
\* >= 4096) is rejected before any bus transaction is attempted and leaves
\* every register unchanged.
C6_RangeRejectedBeforeBus ==
    (outcome \in {"ok", "error"} /\ OutOfRange(call)) =>
      /\ outcome = "error"
      /\ bus = <<>>
      /\ regs = before

---------------------------------------------------------------------------
(* Two callers on one handle, each making one composite assignment, with   *)
(* or without a lock around the whole call.  A descriptor assignment holds *)
(* the bus lock (with obj.i2c_device), so it is one step; the statements   *)
(* of a setter body are separate steps.                                    *)

CallerCalls ==
    { <<"resolution", <<800, 480>>>>, <<"resolution", <<255, 256>>>>,
      <<"horizontal_front_porch", <<40>>>>, <<"horizontal_front_porch", <<300>>>>,
      <<"horizontal_sync_width", <<40>>>>, <<"horizontal_sync_width", <<300>>>>,
      <<"horizontal_back_porch", <<40>>>>, <<"horizontal_back_porch", <<300>>>> }

\* the descriptor assignments of op's body as the body reads them now
BodyOf(op, arg) ==
    CASE op = "resolution" -> resolution_body(_width, _height)
      [] op = "horizontal_front_porch" -> horizontal_front_porch_body(arg[1])
      [] op = "horizontal_sync_width" -> horizontal_sync_width_body(arg[1])
      [] op = "horizontal_back_porch" -> horizontal_back_porch_body(arg[1])

\* statements that store the argument before the first descriptor assignment
Stores(op) == IF op = "resolution" THEN 2 ELSE 1

StmtCount(op, arg) == Stores(op) + Len(BodyOf(op, arg))

Done(c) == pc[c].op # "idle" /\ pc[c].i > StmtCount(pc[c].op, pc[c].arg)

InitCallers ==
    /\ _width = 0 /\ _height = 0 /\ _hfp = 0 /\ _hsw = 0 /\ _hbp = 0
    /\ regs = ZeroBank
    /\ before = regs
    /\ bus = <<>>
    /\ ret = <<>>
    /\ lastSet = NeverSet
    /\ outcome = "none"
    /\ call = Call("none", <<>>, 0, TRUE)
    /\ pc = Idle
    /\ mutex \in {-1, 0}

\* a caller enters a setter (taking the application's lock if there is one)
Begin(c) ==
    /\ pc[c].op = "idle"
    /\ mutex \in {-1, 0}
    /\ \E d \in CallerCalls :
         /\ pc' = [pc EXCEPT ![c] = [op |-> d[1], arg |-> d[2], i |-> 1]]
         /\ call' = Call(d[1], d[2], 0, TRUE)
         /\ lastSet' = CASE d[1] = "resolution" -> [lastSet EXCEPT !.resolution = d[2]]
                         [] d[1] = "horizontal_front_porch" -> [lastSet EXCEPT !.hfp = d[2][1]]
                         [] d[1] = "horizontal_sync_width" -> [lastSet EXCEPT !.hsw = d[2][1]]
                         [] d[1] = "horizontal_back_porch" -> [lastSet EXCEPT !.hbp = d[2][1]]
    /\ mutex' = IF mutex = 0 THEN c ELSE mutex
    /\ outcome' = "pending"
    /\ UNCHANGED <<regs, _width, _height, _hfp, _hsw, _hbp, bus, before, ret>>

\* a caller executes the next statement of its setter body
Step(c) ==
    LET p == pc[c]
        last == p.i = StmtCount(p.op, p.arg)
    IN
    /\ p.op # "idle"
    /\ p.i <= StmtCount(p.op, p.arg)
    /\ IF p.i <= Stores(p.op)
         THEN /\ _width' = IF p.op = "resolution" /\ p.i = 1 THEN p.arg[1] ELSE _width
              /\ _height' = IF p.op = "resolution" /\ p.i = 2 THEN p.arg[2] ELSE _height
              /\ _hfp' = IF p.op = "horizontal_front_porch" THEN p.arg[1] ELSE _hfp
              /\ _hsw' = IF p.op = "horizontal_sync_width" THEN p.arg[1] ELSE _hsw
              /\ _hbp' = IF p.op = "horizontal_back_porch" THEN p.arg[1] ELSE _hbp
              /\ UNCHANGED <<regs, bus>>
         ELSE LET st == Set(Start(regs), BodyOf(p.op, p.arg)[p.i - Stores(p.op)], 0, TRUE) IN
              /\ regs' = st.regs
              /\ bus' = bus \o st.bus
              /\ UNCHANGED <<_width, _height, _hfp, _hsw, _hbp>>
    /\ pc' = [pc EXCEPT ![c].i = p.i + 1]
    /\ mutex' = IF last /\ mutex = c THEN 0 ELSE mutex
    /\ outcome' = IF last /\ \A o \in Callers \ {c} : Done(o) THEN "ok" ELSE outcome
    /\ UNCHANGED <<call, before, ret, lastSet>>

NextCallers == \E c \in Callers : Begin(c) \/ Step(c)

SpecCallers == InitCallers /\ [][NextCallers]_vars

\* the registers of op hold arg
Encodes(r, op, arg) ==
    CASE op = "resolution" ->
           /\ r[_REG_HACTIVE_L] + 256 * (r[_REG_VACTIVE_HACTIVE_H] % 16) = arg[1]
           /\ r[_REG_VACTIVE_L] + 256 * (r[_REG_VACTIVE_HACTIVE_H] \div 16) = arg[2]
      [] op = "horizontal_front_porch" -> r[_REG_HFP_L] + 256 * Slot_hfp(r) = arg[1]
      [] op = "horizontal_sync_width" -> r[_REG_HSW_L] + 256 * Slot_hsw(r) = arg[1]
      [] op = "horizontal_back_porch" -> r[_REG_HBP_L] + 256 * Slot_hbp(r) = arg[1]

AllDone == \A c \in Callers : Done(c)

\* C9, serialized half: when every composite setter call runs as a whole under
\* the lock, the registers end up encoding the value of the last caller.
C9_SerializedEncodesLast ==
    (mutex # -1 /\ AllDone) => Encodes(regs, call.op, call.arg)

\* C9, interleaved half: without the lock two resolution assignments can
\* interleave so that the low registers and the shared high register together
\* encode a resolution neither caller wrote.
C9_InterleavedCorruption ==
    /\ mutex = -1 /\ AllDone
    /\ pc[1].op = "resolution" /\ pc[2].op = "resolution"
    /\ pc[1].arg # pc[2].arg
    /\ ~ Encodes(regs, "resolution", pc[1].arg)
    /\ ~ Encodes(regs, "resolution", pc[2].arg)

\* Serialized resolution assignments alone do end with the last caller's value.
SerializedResolutionEncodesLast ==
    (mutex # -1 /\ AllDone /\ call.op = "resolution") =>
        Encodes(regs, call.op, call.arg)

=============================================================================
